---- MODULE Spec2Model ----
(***************************************************************************)
(* TD1: the quote ingestion pipeline of src/TD1/src/main.rs.               *)
(*                                                                         *)
(* main connects to the store, then walks the symbol list: for each symbol *)
(* it fetches a quote (fetch_alpha_vantage), saves it (save_price) when    *)
(* the fetch succeeded, logs failures, and sleeps for the pacing delay.    *)
(* The single task is modelled by its position pc; every .await is a       *)
(* position of its own, so that what is outstanding while the task is      *)
(* suspended is visible.  The provider, the store and the clock are the    *)
(* environment: their answers are drawn from small sets.                   *)
(***************************************************************************)
EXTENDS Integers, Sequences, FiniteSets, TLC

\* ------------------------------------------------------------------------
\* Program constants
\* ------------------------------------------------------------------------

\* let symbols = ["AAPL", "GOOGL", "MSFT"];
symbols == <<"AAPL", "GOOGL", "MSFT">>

\* sleep(Duration::from_millis(500))
PacingDelayMs == 500

\* source: "alpha_vantage".to_string()
SourceTag == "alpha_vantage"

\* ------------------------------------------------------------------------
\* Bounds of the model
\* ------------------------------------------------------------------------

\* The clock (milliseconds) advances freely up to MaxNow; beyond it only a
\* pending sleep lets it advance.
MaxNow == 250

\* Granularity of the clock.
TickMs == PacingDelayMs \div 2

\* ------------------------------------------------------------------------
\* f64 values and str::parse::<f64>
\* ------------------------------------------------------------------------

Digits == <<"0", "1", "2", "3", "4", "5", "6", "7", "8", "9">>

IsDigit(c) == \E d \in 1..Len(Digits) : Digits[d] = c

DigitVal(c) == (CHOOSE d \in 1..Len(Digits) : Digits[d] = c) - 1

\* ASCII lower-casing of the letters that occur in "infinity" and "nan".
Lower(c) ==
    CASE c = "I" -> "i"
      [] c = "N" -> "n"
      [] c = "F" -> "f"
      [] c = "T" -> "t"
      [] c = "Y" -> "y"
      [] c = "A" -> "a"
      [] OTHER -> c

LowerAll(s) == [k \in 1..Len(s) |-> Lower(s[k])]

\* An f64: a finite decimal (-1)^neg * mant / 10^scale in lowest scale,
\* an infinity, or a NaN.  NoVal stands for "no value".
Finite(neg, mant, scale) == [kind |-> "finite", neg |-> neg, mant |-> mant, scale |-> scale]
Infinite(neg) == [kind |-> "inf", neg |-> neg, mant |-> 0, scale |-> 0]
NaN == [kind |-> "nan", neg |-> FALSE, mant |-> 0, scale |-> 0]
NoVal == [kind |-> "none", neg |-> FALSE, mant |-> 0, scale |-> 0]

RECURSIVE DigitsValue(_)
DigitsValue(s) ==
    IF s = <<>> THEN 0
    ELSE 10 * DigitsValue(SubSeq(s, 1, Len(s) - 1)) + DigitVal(s[Len(s)])

RECURSIVE Normalise(_, _)
Normalise(mant, scale) ==
    IF scale > 0 /\ mant % 10 = 0 THEN Normalise(mant \div 10, scale - 1)
    ELSE <<mant, scale>>

\* The unsigned part of a literal: "inf", "infinity", "nan" in any case, or
\* digits with at most one '.', at least one digit.  (Exponents are not
\* part of the texts the model feeds in.)
ParseUnsigned(s, neg) ==
    LET low == LowerAll(s)
        dots == {k \in 1..Len(s) : s[k] = "."}
        allNum == \A k \in 1..Len(s) : IsDigit(s[k]) \/ s[k] = "."
    IN  IF low = <<"i", "n", "f">> \/ low = <<"i", "n", "f", "i", "n", "i", "t", "y">>
          THEN [ok |-> TRUE, val |-> Infinite(neg)]
        ELSE IF low = <<"n", "a", "n">>
          THEN [ok |-> TRUE, val |-> NaN]
        ELSE IF allNum /\ Cardinality(dots) <= 1 /\ Len(s) > Cardinality(dots)
          THEN LET dot == IF dots = {} THEN Len(s) + 1 ELSE CHOOSE k \in dots : TRUE
                   int == SubSeq(s, 1, dot - 1)
                   frac == SubSeq(s, dot + 1, Len(s))
                   n == Normalise(DigitsValue(int \o frac), Len(frac))
               IN  [ok |-> TRUE, val |-> Finite(neg /\ n[1] # 0, n[1], n[2])]
        ELSE [ok |-> FALSE, val |-> NoVal]

\* resp.quote.price.parse::<f64>()
ParseF64(s) ==
    IF s = <<>> THEN [ok |-> FALSE, val |-> NoVal]
    ELSE IF s[1] = "-" THEN ParseUnsigned(Tail(s), TRUE)
    ELSE IF s[1] = "+" THEN ParseUnsigned(Tail(s), FALSE)
    ELSE ParseUnsigned(s, FALSE)

\* ------------------------------------------------------------------------
\* The environment's answers
\* ------------------------------------------------------------------------

\* Texts the provider may put in "05. price".
PriceTexts ==
    { <<"1", "5", "0", ".", "2", "5">>,
      <<"a", "b", "c">>,
      <<"i", "n", "f">>,
      <<"N", "a", "N">> }

\* What the provider may put in "01. symbol" when asked for sym: the symbol
\* itself or another one.
Echoes(sym) == {sym, "IBM"}

\* Utc::now().timestamp(): whole seconds of the clock.
Timestamp(ms) == ms \div 1000

\* Variant of StockPrice: the capture time is taken in milliseconds.
StockPrice_millis(echo, val, ms) ==
    [symbol |-> echo, price |-> val, source |-> SourceTag, timestamp |-> ms]

\* struct StockPrice, as built by fetch_alpha_vantage.
StockPrice(echo, val, ms) ==
    [symbol |-> echo, price |-> val, source |-> SourceTag, timestamp |-> Timestamp(ms)]

\* ------------------------------------------------------------------------
\* State
\* ------------------------------------------------------------------------

VARIABLES
    pc,          \* position of main
    i,           \* position of the for loop in symbols
    env,         \* process environment after dotenv(): which variables are set
    pool,        \* TRUE once the PgPool exists
    price,       \* the StockPrice bound by the Ok arm, while it is live
    result,      \* what main returned: "none", "Ok", "Err"
    now,         \* the clock, in milliseconds
    wake,        \* deadline of the pending sleep
    rows,        \* table stock_prices, in insertion order
    rows0,       \* history: the table as the run found it
    logs,        \* tracing events, in emission order
    netOut,      \* network requests outstanding
    dbOut,       \* store operations outstanding
    fetchCalls,  \* history: one record per call of fetch_alpha_vantage
    saveCalls,   \* history: one record per call of save_price
    sleeps,      \* history: one record per sleep
    requests     \* history: the HTTP requests sent, in order

vars == <<pc, i, env, pool, price, result, now, wake, rows, rows0, logs, netOut, dbOut,
          fetchCalls, saveCalls, sleeps, requests>>

\* What earlier runs may have left in the table: nothing, or the row of a
\* quote for the first symbol.
PriorTables ==
    { <<>>,
      <<StockPrice(symbols[1], ParseF64(<<"1", "5", "0", ".", "2", "5">>).val, 0)>> }

NoPrice == [symbol |-> "", price |-> NoVal, source |-> "", timestamp |-> 0]

Init ==
    /\ pc = "start"
    /\ i = 0
    /\ env \in [DATABASE_URL : BOOLEAN, ALPHA_VANTAGE_KEY : BOOLEAN]
    /\ pool = FALSE
    /\ price = NoPrice
    /\ result = "none"
    /\ now = 0
    /\ wake = 0
    /\ rows \in PriorTables
    /\ rows0 = rows
    /\ logs = <<>>
    /\ netOut = 0
    /\ dbOut = 0
    /\ fetchCalls = <<>>
    /\ saveCalls = <<>>
    /\ sleeps = <<>>
    /\ requests = <<>>

\* ------------------------------------------------------------------------
\* Helpers of the actions
\* ------------------------------------------------------------------------

N == Len(symbols)

\* A tracing event: the level, the format string and what it interpolates
\* (sym, val, err), and as history the loop position it was emitted at.
Event(level, fmt, sym, val, err) ==
    [level |-> level, fmt |-> fmt, sym |-> sym, val |-> val, err |-> err, pos |-> i]

\* Variant of NextIndex: the loop steps over every other symbol.
NextIndex_skip(k) == k + 2

\* The for loop's step: the position after k, and where main goes from there.
NextIndex(k) == k + 1

AfterIndex(k) == IF k <= N THEN "fetch" ELSE "done"

\* struct Quote: the two fields decoded from the response, the price as text.
Quote(echo, text) == [symbol |-> echo, price |-> text]

NoQuote == Quote("", <<>>)

\* The last call of fetch_alpha_vantage decoded the quote q.
GotQuote(calls, q) == [calls EXCEPT ![Len(calls)].resp = q]

\* The last call of fetch_alpha_vantage returns res.
CloseFetch(res) ==
    [fetchCalls EXCEPT ![Len(fetchCalls)].res = res, ![Len(fetchCalls)].ret = now]

\* The last call of save_price returns res, the table then holding `after` rows.
CloseSave(res, after) ==
    [saveCalls EXCEPT ![Len(saveCalls)].res = res, ![Len(saveCalls)].after = after,
                      ![Len(saveCalls)].ret = now]

\* Variant of BeginSleep: no delay after the last symbol; main is done.
BeginSleep_notLast ==
    IF i = N
      THEN /\ pc' = "done"
           /\ UNCHANGED <<wake, sleeps>>
      ELSE /\ pc' = "sleeping"
           /\ wake' = now + PacingDelayMs
           /\ sleeps' = Append(sleeps, [pos |-> i, from |-> now, to |-> -1])

\* sleep(Duration::from_millis(500)).await, up to the suspension.
BeginSleep ==
    /\ pc' = "sleeping"
    /\ wake' = now + PacingDelayMs
    /\ sleeps' = Append(sleeps, [pos |-> i, from |-> now, to |-> -1])

\* Variant of ErrArm: the error is logged and save_price is called all the
\* same, with the record left from before.
ErrArm_save(err) ==
    /\ logs' = Append(logs, Event("ERROR", "Fetch error: {err}", "", NoVal, err))
    /\ saveCalls' = Append(saveCalls,
           [pos |-> i, rec |-> price, at |-> now, ret |-> -1, before |-> Len(rows),
            after |-> -1, res |-> "pending"])
    /\ dbOut' = dbOut + 1
    /\ pc' = "saving"
    /\ UNCHANGED <<i, env, rows0, pool, price, result, now, wake, rows, sleeps>>

\* Err(err) => error!("Fetch error: {err}"), then the sleep.
ErrArm(err) ==
    /\ logs' = Append(logs, Event("ERROR", "Fetch error: {err}", "", NoVal, err))
    /\ BeginSleep
    /\ UNCHANGED <<i, env, rows0, pool, price, result, now, rows, dbOut, saveCalls>>

\* Variant of OkArm: save_price is spawned instead of awaited, and main goes
\* on to the sleep while the insert is outstanding.
OkArm_spawn(p) ==
    /\ logs' = Append(logs, Event("INFO", "Fetched {sym}: ${}", symbols[i], p.price, ""))
    /\ price' = p
    /\ saveCalls' = Append(saveCalls,
           [pos |-> i, rec |-> p, at |-> now, ret |-> -1, before |-> Len(rows),
            after |-> -1, res |-> "pending"])
    /\ dbOut' = dbOut + 1
    /\ BeginSleep
    /\ UNCHANGED <<i, env, rows0, pool, result, now, rows>>

\* Ok(price) => info!("Fetched {sym}: ${}", price.price), then save_price is
\* called and suspends on execute(pool).
OkArm(p) ==
    /\ logs' = Append(logs, Event("INFO", "Fetched {sym}: ${}", symbols[i], p.price, ""))
    /\ price' = p
    /\ saveCalls' = Append(saveCalls,
           [pos |-> i, rec |-> p, at |-> now, ret |-> -1, before |-> Len(rows),
            after |-> -1, res |-> "pending"])
    /\ dbOut' = dbOut + 1
    /\ pc' = "saving"
    /\ UNCHANGED <<i, env, rows0, pool, result, now, wake, rows, sleeps>>

\* ------------------------------------------------------------------------
\* main, up to the loop
\* ------------------------------------------------------------------------

\* dotenv, the subscriber, info!("Starting TD1..."), and
\* std::env::var("DATABASE_URL")?: absent, main returns the error; present,
\* connect(..) is awaited.
Start ==
    /\ pc = "start"
    /\ logs' = Append(logs, Event("INFO", "Starting TD1...", "", NoVal, ""))
    /\ IF env.DATABASE_URL
         THEN /\ pc' = "connecting"
              /\ dbOut' = dbOut + 1
              /\ UNCHANGED result
         ELSE /\ pc' = "done"
              /\ result' = "Err"
              /\ UNCHANGED dbOut
    /\ UNCHANGED <<i, env, rows0, pool, price, now, wake, rows, netOut, fetchCalls, saveCalls,
                   sleeps, requests>>

\* connect(..).await succeeds: the pool exists and the loop is entered.
ConnectOk ==
    /\ pc = "connecting"
    /\ pool' = TRUE
    /\ dbOut' = dbOut - 1
    /\ i' = 1
    /\ pc' = AfterIndex(1)
    /\ result' = IF AfterIndex(1) = "done" THEN "Ok" ELSE result
    /\ UNCHANGED <<env, rows0, price, now, wake, rows, logs, netOut, fetchCalls, saveCalls,
                   sleeps, requests>>

\* Variant of ConnectFail: the error is dropped and the loop is entered
\* without a pool.
ConnectFail_ignored ==
    /\ pc = "connecting"
    /\ dbOut' = dbOut - 1
    /\ i' = 1
    /\ pc' = AfterIndex(1)
    /\ UNCHANGED <<env, rows0, pool, price, result, now, wake, rows, logs, netOut, fetchCalls,
                   saveCalls, sleeps, requests>>

\* connect(..).await? fails: main returns the error.
ConnectFail ==
    /\ pc = "connecting"
    /\ dbOut' = dbOut - 1
    /\ pc' = "done"
    /\ result' = "Err"
    /\ UNCHANGED <<i, env, rows0, pool, price, now, wake, rows, logs, netOut, fetchCalls,
                   saveCalls, sleeps, requests>>

\* ------------------------------------------------------------------------
\* fetch_alpha_vantage
\* ------------------------------------------------------------------------

\* The GET request of the call: the url's query parameters.
Request(sym) == [function |-> "GLOBAL_QUOTE", symbol |-> sym, apikey |-> "ALPHA_VANTAGE_KEY"]

\* Variant of FetchStart: the error of the key lookup is propagated by main.
FetchStart_fatal ==
    /\ pc = "fetch"
    /\ LET call == [sym |-> symbols[i], pos |-> i, at |-> now, ret |-> -1, res |-> "pending",
                    resp |-> NoQuote]
       IN  IF ~env.ALPHA_VANTAGE_KEY
             THEN /\ fetchCalls' = Append(fetchCalls,
                                     [call EXCEPT !.res = "env::VarError", !.ret = now])
                  /\ pc' = "done"
                  /\ result' = "Err"
                  /\ UNCHANGED <<i, env, rows0, pool, price, now, wake, rows, logs, netOut,
                                 dbOut, saveCalls, sleeps, requests>>
             ELSE /\ fetchCalls' = Append(fetchCalls, call)
                  /\ requests' = Append(requests, [pos |-> i, req |-> Request(symbols[i])])
                  /\ netOut' = netOut + 1
                  /\ pc' = "await_get"
                  /\ UNCHANGED <<i, env, rows0, pool, price, result, now, wake, rows, logs,
                                 dbOut, saveCalls, sleeps>>

\* Variant of FetchStart: the request is sent before the key is looked up.
FetchStart_requestFirst ==
    /\ pc = "fetch"
    /\ requests' = Append(requests, [pos |-> i, req |-> Request(symbols[i])])
    /\ LET call == [sym |-> symbols[i], pos |-> i, at |-> now, ret |-> -1, res |-> "pending",
                    resp |-> NoQuote]
       IN  IF ~env.ALPHA_VANTAGE_KEY
             THEN /\ fetchCalls' = Append(fetchCalls,
                                     [call EXCEPT !.res = "env::VarError", !.ret = now])
                  /\ ErrArm("env::VarError")
                  /\ UNCHANGED netOut
             ELSE /\ fetchCalls' = Append(fetchCalls, call)
                  /\ netOut' = netOut + 1
                  /\ pc' = "await_get"
                  /\ UNCHANGED <<i, env, rows0, pool, price, result, now, wake, rows, logs,
                                 dbOut, saveCalls, sleeps>>

\* The call for symbols[i], up to its first suspension or its early return:
\* std::env::var("ALPHA_VANTAGE_KEY")? returns the error when the key is
\* absent; otherwise the url is built and reqwest::get(&url) is awaited.
FetchStart ==
    /\ pc = "fetch"
    /\ LET call == [sym |-> symbols[i], pos |-> i, at |-> now, ret |-> -1, res |-> "pending",
                    resp |-> NoQuote]
       IN  IF ~env.ALPHA_VANTAGE_KEY
             THEN /\ fetchCalls' = Append(fetchCalls,
                                     [call EXCEPT !.res = "env::VarError", !.ret = now])
                  /\ ErrArm("env::VarError")
                  /\ UNCHANGED <<netOut, requests>>
             ELSE /\ fetchCalls' = Append(fetchCalls, call)
                  /\ requests' = Append(requests, [pos |-> i, req |-> Request(symbols[i])])
                  /\ netOut' = netOut + 1
                  /\ pc' = "await_get"
                  /\ UNCHANGED <<i, env, rows0, pool, price, result, now, wake, rows, logs,
                                 dbOut, saveCalls, sleeps>>

\* Variant of GetFail: a failed request is sent again.
GetFail_retry ==
    /\ pc = "await_get"
    /\ fetchCalls' = Append(CloseFetch("reqwest::Error(request)"),
                            [sym |-> symbols[i], pos |-> i, at |-> now, ret |-> -1,
                             res |-> "pending", resp |-> NoQuote])
    /\ requests' = Append(requests, [pos |-> i, req |-> Request(symbols[i])])
    /\ UNCHANGED <<pc, i, env, rows0, pool, price, result, now, wake, rows, logs, netOut,
                   dbOut, saveCalls, sleeps>>

\* reqwest::get(&url).await? fails.
GetFail ==
    /\ pc = "await_get"
    /\ netOut' = netOut - 1
    /\ fetchCalls' = CloseFetch("reqwest::Error(request)")
    /\ ErrArm("reqwest::Error(request)")
    /\ UNCHANGED requests

\* reqwest::get(&url).await succeeds: the body is awaited.
GetOk ==
    /\ pc = "await_get"
    /\ pc' = "await_json"
    /\ UNCHANGED <<i, env, rows0, pool, price, result, now, wake, rows, logs, netOut, dbOut,
                   fetchCalls, saveCalls, sleeps, requests>>

\* .json::<GlobalQuote>().await? fails: the body cannot be read, or is not
\* the expected JSON.
JsonFail ==
    /\ pc = "await_json"
    /\ \E err \in {"reqwest::Error(body)", "reqwest::Error(decode)"} :
          /\ netOut' = netOut - 1
          /\ fetchCalls' = CloseFetch(err)
          /\ ErrArm(err)
          /\ UNCHANGED requests

\* .json::<GlobalQuote>().await succeeds with a quote; the price text is
\* parsed and the record built, or the parse error returned.
JsonOk ==
    /\ pc = "await_json"
    /\ \E echo \in Echoes(symbols[i]), text \in PriceTexts :
          LET parsed == ParseF64(text)
          IN  /\ netOut' = netOut - 1
              /\ UNCHANGED requests
              /\ IF parsed.ok
                   THEN /\ fetchCalls' = GotQuote(CloseFetch("Ok"), Quote(echo, text))
                        /\ OkArm(StockPrice(echo, parsed.val, now))
                   ELSE /\ fetchCalls' = GotQuote(CloseFetch("num::ParseFloatError"),
                                                  Quote(echo, text))
                        /\ ErrArm("num::ParseFloatError")

\* ------------------------------------------------------------------------
\* save_price
\* ------------------------------------------------------------------------

\* Variant of Row: the binds of symbol and source are exchanged.
Row_swapped(p) ==
    [symbol |-> p.source, price |-> p.price, source |-> p.symbol, timestamp |-> p.timestamp]

\* The row the INSERT writes: the four binds, in the order of the columns.
\* f64 goes to a double precision column and i64 to a 64-bit integer one, so
\* each value is stored as it is.
Row(p) ==
    [symbol |-> p.symbol, price |-> p.price, source |-> p.source, timestamp |-> p.timestamp]

\* Variant of SaveOk: the statement is an upsert on the symbol; the row that
\* is there for the symbol is overwritten.
SaveOk_upsert ==
    /\ pc = "saving"
    /\ rows' = IF \E r \in 1..Len(rows) : rows[r].symbol = price.symbol
                THEN [r \in 1..Len(rows) |->
                         IF rows[r].symbol = price.symbol THEN Row(price) ELSE rows[r]]
                ELSE Append(rows, Row(price))
    /\ dbOut' = dbOut - 1
    /\ saveCalls' = CloseSave("Ok", Len(rows'))
    /\ price' = NoPrice
    /\ BeginSleep
    /\ UNCHANGED <<i, env, rows0, pool, result, now, logs, netOut, fetchCalls, requests>>

\* Variant of SaveOk: the statement is executed twice.
SaveOk_twice ==
    /\ pc = "saving"
    /\ rows' = Append(Append(rows, Row(price)), Row(price))
    /\ dbOut' = dbOut - 1
    /\ saveCalls' = CloseSave("Ok", Len(rows'))
    /\ price' = NoPrice
    /\ BeginSleep
    /\ UNCHANGED <<i, env, rows0, pool, result, now, logs, netOut, fetchCalls, requests>>

\* Variant of SaveOk: save_price returns Ok(()) although no row was added.
SaveOk_lost ==
    /\ pc = "saving"
    /\ rows' = rows
    /\ dbOut' = dbOut - 1
    /\ saveCalls' = CloseSave("Ok", Len(rows'))
    /\ price' = NoPrice
    /\ BeginSleep
    /\ UNCHANGED <<i, env, rows0, pool, result, now, logs, netOut, fetchCalls, requests>>

\* execute(pool).await succeeds: the INSERT added its row.
SaveOk ==
    /\ pc = "saving"
    /\ rows' = Append(rows, Row(price))
    /\ dbOut' = dbOut - 1
    /\ saveCalls' = CloseSave("Ok", Len(rows'))
    /\ price' = NoPrice
    /\ BeginSleep
    /\ UNCHANGED <<i, env, rows0, pool, result, now, logs, netOut, fetchCalls, requests>>

\* Variant of SaveErr: the error is dropped (let _ = save_price(..).await).
SaveErr_silent ==
    /\ pc = "saving"
    /\ rows' = rows
    /\ dbOut' = dbOut - 1
    /\ saveCalls' = CloseSave("sqlx::Error", Len(rows'))
    /\ price' = NoPrice
    /\ BeginSleep
    /\ UNCHANGED <<i, env, rows0, pool, result, now, logs, netOut, fetchCalls, requests>>

\* Variant of SaveErr: the row is in the table although the call failed.
SaveErr_rowAdded ==
    /\ pc = "saving"
    /\ rows' = Append(rows, price)
    /\ dbOut' = dbOut - 1
    /\ saveCalls' = CloseSave("sqlx::Error", Len(rows'))
    /\ logs' = Append(logs, Event("ERROR", "DB error: {e}", "", NoVal, "sqlx::Error"))
    /\ price' = NoPrice
    /\ BeginSleep
    /\ UNCHANGED <<i, env, rows0, pool, result, now, netOut, fetchCalls, requests>>

\* Variant of SaveErr: main propagates the error (save_price(..).await?) and
\* returns.
SaveErr_fatal ==
    /\ pc = "saving"
    /\ rows' = rows
    /\ dbOut' = dbOut - 1
    /\ saveCalls' = CloseSave("sqlx::Error", Len(rows'))
    /\ price' = NoPrice
    /\ pc' = "done"
    /\ result' = "Err"
    /\ UNCHANGED <<i, env, rows0, pool, now, wake, logs, netOut, fetchCalls, sleeps, requests>>

\* execute(pool).await? fails: no row, and main logs
\* error!("DB error: {e}").  The store executes the single INSERT statement
\* atomically and reports its outcome: an error means the row is not there.
SaveErr ==
    /\ pc = "saving"
    /\ rows' = rows
    /\ dbOut' = dbOut - 1
    /\ saveCalls' = CloseSave("sqlx::Error", Len(rows'))
    /\ logs' = Append(logs, Event("ERROR", "DB error: {e}", "", NoVal, "sqlx::Error"))
    /\ price' = NoPrice
    /\ BeginSleep
    /\ UNCHANGED <<i, env, rows0, pool, result, now, netOut, fetchCalls, requests>>

\* ------------------------------------------------------------------------
\* The pacing delay and the clock
\* ------------------------------------------------------------------------

\* Variant of SleepDone: the sleep returns without waiting for its deadline.
SleepDone_early ==
    /\ pc = "sleeping"
    /\ sleeps' = [sleeps EXCEPT ![Len(sleeps)].to = now]
    /\ i' = NextIndex(i)
    /\ pc' = AfterIndex(NextIndex(i))
    /\ result' = IF AfterIndex(NextIndex(i)) = "done" THEN "Ok" ELSE result
    /\ UNCHANGED <<env, rows0, pool, price, now, wake, rows, logs, netOut, dbOut,
                   fetchCalls, saveCalls, requests>>

\* Variant of SleepDone: after the last symbol the loop starts over.
SleepDone_again ==
    /\ pc = "sleeping"
    /\ now >= wake
    /\ sleeps' = [sleeps EXCEPT ![Len(sleeps)].to = now]
    /\ i' = IF i = N THEN 1 ELSE NextIndex(i)
    /\ pc' = "fetch"
    /\ UNCHANGED <<env, rows0, pool, price, result, now, wake, rows, logs, netOut, dbOut,
                   fetchCalls, saveCalls, requests>>

\* The sleep returns once its deadline has passed; the loop advances, and
\* after the last symbol main returns Ok(()).
SleepDone ==
    /\ pc = "sleeping"
    /\ now >= wake
    /\ sleeps' = [sleeps EXCEPT ![Len(sleeps)].to = now]
    /\ i' = NextIndex(i)
    /\ pc' = AfterIndex(NextIndex(i))
    /\ result' = IF AfterIndex(NextIndex(i)) = "done" THEN "Ok" ELSE result
    /\ UNCHANGED <<env, rows0, pool, price, now, wake, rows, logs, netOut, dbOut,
                   fetchCalls, saveCalls, requests>>

Suspended == pc \in {"connecting", "await_get", "await_json", "saving", "sleeping"}

\* Time passes while main is suspended.
Tick ==
    /\ Suspended
    /\ now < MaxNow \/ (pc = "sleeping" /\ now < wake)
    /\ now' = now + TickMs
    /\ UNCHANGED <<pc, i, env, rows0, pool, price, result, wake, rows, logs, netOut, dbOut,
                   fetchCalls, saveCalls, sleeps, requests>>

Next ==
    \/ Start
    \/ ConnectOk
    \/ ConnectFail
    \/ FetchStart
    \/ GetFail
    \/ GetOk
    \/ JsonFail
    \/ JsonOk
    \/ SaveOk
    \/ SaveErr
    \/ SleepDone
    \/ Tick

Spec == Init /\ [][Next]_vars

\* The scheduling of the run: the runtime resumes main when it can run, every
\* awaited fetch, insert and delay returns, and time passes.
FairSpec ==
    /\ Spec
    /\ WF_vars(FetchStart)
    /\ WF_vars(GetFail \/ GetOk)
    /\ WF_vars(JsonFail \/ JsonOk)
    /\ WF_vars(SaveOk \/ SaveErr)
    /\ WF_vars(SleepDone)
    /\ WF_vars(Tick)

TypeOK ==
    /\ pc \in {"start", "connecting", "fetch", "await_get", "await_json", "saving",
               "sleeping", "done"}
    /\ i \in 0..(N + 1)
    /\ result \in {"none", "Ok", "Err"}
    /\ pool \in BOOLEAN
    /\ netOut \in Nat
    /\ dbOut \in Nat

\* ------------------------------------------------------------------------
\* Vocabulary of the properties
\* ------------------------------------------------------------------------

Positions == 1..N

\* main has returned after running the loop.
RunEnded == pc = "done" /\ pool

FetchReturned(k) == k <= Len(fetchCalls) /\ fetchCalls[k].res # "pending"

\* The calls of fetch_alpha_vantage / save_price made for list position x.
FetchesAt(x) == {k \in 1..Len(fetchCalls) : fetchCalls[k].pos = x}

SavesAt(x) == {k \in 1..Len(saveCalls) : saveCalls[k].pos = x}

FetchOkAt(x) == \E k \in FetchesAt(x) : fetchCalls[k].res = "Ok"

FetchFailedAt(x) == \E k \in FetchesAt(x) : fetchCalls[k].res \notin {"Ok", "pending"}

SaveOkAt(x) == \E k \in SavesAt(x) : saveCalls[k].res = "Ok"

SaveFailedAt(x) == \E k \in SavesAt(x) : saveCalls[k].res \notin {"Ok", "pending"}

\* The rows the run has added to the table it found.
AddedRows == (Len(rows0) + 1)..Len(rows)

\* The rows of the table that appeared during save_price call k.
RowsOfCall(k) ==
    LET last == IF saveCalls[k].res = "pending" THEN Len(rows) ELSE saveCalls[k].after
    IN  {r \in 1..Len(rows) : saveCalls[k].before < r /\ r <= last}

\* The rows added while list position x was being processed.
RowsAt(x) == UNION {RowsOfCall(k) : k \in SavesAt(x)}

\* The provider echoed the requested symbol in every record handed to
\* save_price.
EchoFaithful == \A k \in 1..Len(saveCalls) : saveCalls[k].rec.symbol = symbols[saveCalls[k].pos]

\* ------------------------------------------------------------------------
\* C1
\* ------------------------------------------------------------------------

\* C1: whatever the fetch and persist outcomes, one run of the loop calls
\* fetch_alpha_vantage exactly N times, once per list position and in list
\* order: the calls made so far are always the first symbols of the list, in
\* order, and when the run has ended there are N of them.
C1_FetchOncePerPositionInOrder ==
    /\ Len(fetchCalls) <= N
    /\ \A k \in 1..Len(fetchCalls) : fetchCalls[k].pos = k /\ fetchCalls[k].sym = symbols[k]
    /\ RunEnded => Len(fetchCalls) = N

\* A run that ended with a failed fetch, a failed persist and a persisted row.
C1_Witness ==
    /\ RunEnded
    /\ \E x, y, z \in Positions : FetchFailedAt(x) /\ SaveFailedAt(y) /\ SaveOkAt(z)

\* ------------------------------------------------------------------------
\* C2
\* ------------------------------------------------------------------------

\* C2: if the fetch for symbol X fails, save_price is never called for X, and
\* when the run has ended every other symbol has had its one fetch, its
\* persist exactly when its own fetch succeeded, and its row exactly when its
\* own fetch and its own persist succeeded: what X's fetch returned changes
\* nothing for the others.
C2_FetchFailureIsolated ==
    \A x \in Positions :
        FetchFailedAt(x) =>
            /\ SavesAt(x) = {}
            /\ RowsAt(x) = {}
            /\ RunEnded =>
                 \A j \in Positions \ {x} :
                     /\ Cardinality(FetchesAt(j)) = 1
                     /\ (SavesAt(j) # {}) <=> FetchOkAt(j)
                     /\ (RowsAt(j) # {}) <=> (FetchOkAt(j) /\ SaveOkAt(j))

\* The first fetch failed and the run ended with a row for a later symbol.
C2_Witness ==
    /\ RunEnded
    /\ FetchFailedAt(1)
    /\ \E j \in Positions : j > 1 /\ RowsAt(j) # {}

\* ------------------------------------------------------------------------
\* C3
\* ------------------------------------------------------------------------

\* C3: if save_price fails for symbol X, no row is added while X is processed
\* (and, the provider echoing the symbols it is asked for, the table holds no
\* row with X's symbol), and when the run has ended every symbol after X has
\* been fetched, handed to save_price when its fetch succeeded, and has its
\* row when its persist succeeded too.
C3_PersistFailureIsolated ==
    \A x \in Positions :
        SaveFailedAt(x) =>
            /\ RowsAt(x) = {}
            /\ EchoFaithful => \A r \in AddedRows : rows[r].symbol # symbols[x]
            /\ RunEnded =>
                 \A j \in Positions :
                     j > x =>
                         /\ FetchesAt(j) # {}
                         /\ FetchOkAt(j) => SavesAt(j) # {}
                         /\ (FetchOkAt(j) /\ SaveOkAt(j)) => RowsAt(j) # {}

\* The first persist failed and the run ended with a row for a later symbol.
C3_Witness ==
    /\ RunEnded
    /\ SaveFailedAt(1)
    /\ \E j \in Positions : j > 1 /\ RowsAt(j) # {}

\* ------------------------------------------------------------------------
\* C4
\* ------------------------------------------------------------------------

\* C4: if the store connection is not established (DATABASE_URL absent, or
\* connect fails), main ends with an error and no fetch and no persist is
\* ever attempted: without the pool there is no call, no request and no row,
\* and main ended without the pool has returned Err.
C4_NoWorkWithoutConnection ==
    /\ ~pool =>
         /\ fetchCalls = <<>>
         /\ saveCalls = <<>>
         /\ requests = <<>>
         /\ rows = rows0
    /\ (pc = "done" /\ ~pool) => result = "Err"

\* connect was attempted and failed, and main has returned.
C4_Witness == pc = "done" /\ ~pool /\ env.DATABASE_URL /\ result = "Err"

\* ------------------------------------------------------------------------
\* C5
\* ------------------------------------------------------------------------

\* C5: main returns an error if and only if the connection setup failed;
\* once the pool exists the run ends with Ok, whatever failed per symbol.
C5_FatalIffConnectionFailed ==
    /\ result = "Err" <=> (pc = "done" /\ ~pool)
    /\ RunEnded => result = "Ok"
    /\ pool => result # "Err"

\* A run in which every symbol failed, one of them in save_price, ended Ok.
C5_Witness ==
    /\ RunEnded
    /\ result = "Ok"
    /\ \A x \in Positions : FetchFailedAt(x) \/ SaveFailedAt(x)
    /\ \E x \in Positions : SaveFailedAt(x)
    /\ \E x \in Positions : FetchFailedAt(x)

\* ------------------------------------------------------------------------
\* C6
\* ------------------------------------------------------------------------

\* C6: symbols are processed one at a time: when the fetch for a position
\* starts, the fetch and the persist of every earlier position have returned;
\* at most one network request and at most one store operation is
\* outstanding, and never both at once.
C6_OneAtATime ==
    /\ netOut <= 1
    /\ dbOut <= 1
    /\ netOut + dbOut <= 1
    /\ \A k \in 1..Len(fetchCalls) :
         /\ \A h \in 1..Len(fetchCalls) :
              h < k => /\ fetchCalls[h].res # "pending"
                       /\ fetchCalls[h].ret <= fetchCalls[k].at
         /\ \A h \in 1..Len(saveCalls) :
              saveCalls[h].pos < fetchCalls[k].pos =>
                  /\ saveCalls[h].res # "pending"
                  /\ saveCalls[h].ret <= fetchCalls[k].at
    /\ \A h \in 1..Len(saveCalls) :
         saveCalls[h].res = "pending" => (h = Len(saveCalls) /\ pc = "saving")

\* The request for the second symbol is outstanding after the first symbol
\* was persisted.
C6_Witness == pc = "await_get" /\ i = 2 /\ netOut = 1 /\ SaveOkAt(1)

\* ------------------------------------------------------------------------
\* C7
\* ------------------------------------------------------------------------

\* When the processing of list position x ended: the return of its persist,
\* or of its fetch when there was no persist.
ProcessedAt(x) ==
    IF SavesAt(x) # {}
      THEN saveCalls[CHOOSE k \in SavesAt(x) : TRUE].ret
      ELSE fetchCalls[CHOOSE k \in FetchesAt(x) : TRUE].ret

\* C7: between the end of the processing of a symbol (fetch failed, persist
\* failed, or both succeeded) and the start of the next fetch, one full
\* pacing delay elapses: a completed sleep of at least PacingDelayMs lies
\* between them.
C7_PacingBetweenFetches ==
    \A k \in 2..Len(fetchCalls) :
        /\ fetchCalls[k].at - ProcessedAt(fetchCalls[k].pos - 1) >= PacingDelayMs
        /\ \E s \in 1..Len(sleeps) :
              /\ sleeps[s].pos = fetchCalls[k].pos - 1
              /\ sleeps[s].to # -1
              /\ sleeps[s].from >= ProcessedAt(fetchCalls[k].pos - 1)
              /\ sleeps[s].to - sleeps[s].from >= PacingDelayMs
              /\ sleeps[s].to <= fetchCalls[k].at

\* All three fetches started, after a failed fetch and after a failed persist.
C7_Witness ==
    /\ Len(fetchCalls) = N
    /\ \E x, y \in Positions : x < N /\ y < N /\ FetchFailedAt(x) /\ SaveFailedAt(y)

\* ------------------------------------------------------------------------
\* C8
\* ------------------------------------------------------------------------

\* C8: once the pool exists, and every fetch, insert and delay returning
\* (FairSpec), the run terminates; it makes one pass over the list: the loop
\* position only moves forward by one, each position is visited once, and a
\* finished main does nothing more.
C8_TerminatesAfterOnePass ==
    /\ pool ~> (pc = "done" /\ result = "Ok")
    /\ [][i' = i \/ i' = i + 1]_vars
    /\ [][pc = "done" => pc' = "done"]_vars
    /\ [](\A x \in Positions : Cardinality(FetchesAt(x)) <= 1)
    /\ [](RunEnded => \A x \in Positions : Cardinality(FetchesAt(x)) = 1 /\ Len(sleeps) = N)

\* The run ended after its pass over the three symbols.
C8_Witness == RunEnded /\ i = N + 1 /\ Len(fetchCalls) = N

\* ------------------------------------------------------------------------
\* C9
\* ------------------------------------------------------------------------

\* The requests sent by the call for list position x.
RequestsAt(x) == {q \in 1..Len(requests) : requests[q].pos = x}

\* C9 as stated: every call of fetch_alpha_vantage that has returned sent
\* exactly one request, the call that failed for want of the key included.
C9_Original ==
    \A k \in 1..Len(fetchCalls) :
        fetchCalls[k].res # "pending" => Cardinality(RequestsAt(fetchCalls[k].pos)) = 1

\* C9 amended: a call of fetch_alpha_vantage sends exactly one request when
\* ALPHA_VANTAGE_KEY is set, whatever the outcome, and none when the key is
\* absent, in which case it fails before any request is made.
C9_OneRequestWhenKeyPresent ==
    \A k \in 1..Len(fetchCalls) :
        LET sent == Cardinality(RequestsAt(fetchCalls[k].pos))
        IN  /\ env.ALPHA_VANTAGE_KEY => sent = 1
            /\ ~env.ALPHA_VANTAGE_KEY => (sent = 0 /\ fetchCalls[k].res = "env::VarError")
            /\ fetchCalls[k].res = "env::VarError" => sent = 0

\* Without the key, the run ended after three calls that sent nothing.
C9_Witness ==
    /\ ~env.ALPHA_VANTAGE_KEY
    /\ RunEnded
    /\ Len(fetchCalls) = N
    /\ requests = <<>>

\* ------------------------------------------------------------------------
\* C10
\* ------------------------------------------------------------------------

Columns == {"symbol", "price", "source", "timestamp"}

\* C10: a call of save_price adds exactly one row, the record it was given,
\* when it returns Ok, and no row when it returns an error; while it is
\* pending no row of it is visible, and every row of the table is a whole
\* record added by a call that returned Ok.
C10_OneRowOnSuccessNoneOnError ==
    /\ \A k \in 1..Len(saveCalls) :
         /\ saveCalls[k].res = "Ok" =>
               /\ saveCalls[k].after = saveCalls[k].before + 1
               /\ saveCalls[k].after <= Len(rows)
               /\ rows[saveCalls[k].after] = saveCalls[k].rec
         /\ saveCalls[k].res \notin {"Ok", "pending"} => saveCalls[k].after = saveCalls[k].before
         /\ saveCalls[k].res = "pending" => Len(rows) = saveCalls[k].before
    /\ \A r \in 1..Len(rows) : DOMAIN rows[r] = Columns
    /\ \A r \in AddedRows :
         \E k \in 1..Len(saveCalls) :
             saveCalls[k].res = "Ok" /\ saveCalls[k].after = r /\ rows[r] = saveCalls[k].rec
    /\ Len(rows) = Len(rows0) + Cardinality({k \in 1..Len(saveCalls) : saveCalls[k].res = "Ok"})

\* One call of save_price returned Ok and another returned an error.
C10_Witness ==
    \E h, k \in 1..Len(saveCalls) :
        saveCalls[h].res = "Ok" /\ saveCalls[k].res = "sqlx::Error" /\ Len(rows) = Len(rows0) + 1

\* ------------------------------------------------------------------------
\* C11
\* ------------------------------------------------------------------------

\* C11: the table is append-only under the pipeline: no step changes or
\* removes a row that is there, so the table the run found stays as its
\* first rows; a successful save_price adds its row even when an equal row
\* is already there, as when the batch is run again over the same symbols.
C11_AppendOnly ==
    /\ [][Len(rows') >= Len(rows) /\ SubSeq(rows', 1, Len(rows)) = rows]_vars
    /\ [](Len(rows) >= Len(rows0) /\ SubSeq(rows, 1, Len(rows0)) = rows0)
    /\ [](\A k \in 1..Len(saveCalls) :
             (saveCalls[k].res = "Ok" /\ \E r \in 1..saveCalls[k].before : rows[r] = Row(saveCalls[k].rec))
                 => /\ saveCalls[k].after = saveCalls[k].before + 1
                    /\ rows[saveCalls[k].after] = Row(saveCalls[k].rec))

\* The run added a row equal to one an earlier run had left.
C11_Witness ==
    \E r \in 1..Len(rows0) : \E q \in AddedRows : rows[q] = rows[r]

\* ------------------------------------------------------------------------
\* C12
\* ------------------------------------------------------------------------

PosOf(sym) == CHOOSE x \in Positions : symbols[x] = sym

Succeeded(x) == FetchOkAt(x) /\ SaveOkAt(x)

\* C12: when the run has ended, each symbol has one added row if its fetch
\* and its persist both succeeded and none otherwise (counted by the call
\* that added the row and, the provider echoing the symbols asked for, by
\* the symbol column); in particular, AAPL fetched and persisted and the
\* response for MSFT not decodable, there is one row for AAPL, none for
\* MSFT, and main returns Ok.
C12_OneRowPerSuccess ==
    RunEnded =>
        /\ \A x \in Positions :
             /\ Cardinality(RowsAt(x)) = IF Succeeded(x) THEN 1 ELSE 0
             /\ EchoFaithful =>
                  Cardinality({r \in AddedRows : rows[r].symbol = symbols[x]})
                      = IF Succeeded(x) THEN 1 ELSE 0
        /\ Len(rows) - Len(rows0) = Cardinality({x \in Positions : Succeeded(x)})
        /\ (Succeeded(PosOf("AAPL")) /\ fetchCalls[PosOf("MSFT")].res = "reqwest::Error(decode)")
             => /\ Cardinality(RowsAt(PosOf("AAPL"))) = 1
                /\ RowsAt(PosOf("MSFT")) = {}
                /\ result = "Ok"

\* AAPL was fetched and persisted, the response for MSFT could not be
\* decoded, and the run has ended.
C12_Witness ==
    /\ RunEnded
    /\ Succeeded(PosOf("AAPL"))
    /\ fetchCalls[PosOf("MSFT")].res = "reqwest::Error(decode)"
    /\ EchoFaithful

\* ------------------------------------------------------------------------
\* C13
\* ------------------------------------------------------------------------

\* The events emitted while list position x was being processed.
EventsAt(x) == {e \in 1..Len(logs) : logs[e].pos = x}

\* What fetch_alpha_vantage / save_price returned for list position x.
FetchResAt(x) == fetchCalls[CHOOSE k \in FetchesAt(x) : TRUE].res

SaveResAt(x) == saveCalls[CHOOSE k \in SavesAt(x) : TRUE].res

\* The event tells which symbol it is about: the format interpolates the
\* symbol, or the error text carries the request url, as the text of a
\* reqwest error of the request does.
NamesSymbol(e, sym) == e.sym = sym \/ e.err = "reqwest::Error(request)"

\* C13: every per-symbol failure, of the fetch or of the persist, has an
\* error event that identifies the symbol that failed and the kind of the
\* error.
C13_FailureLoggedWithSymbolAndKind ==
    \A x \in Positions :
        /\ FetchFailedAt(x) =>
              \E e \in EventsAt(x) :
                  /\ logs[e].level = "ERROR"
                  /\ logs[e].err = FetchResAt(x)
                  /\ NamesSymbol(logs[e], symbols[x])
        /\ SaveFailedAt(x) =>
              \E e \in EventsAt(x) :
                  /\ logs[e].level = "ERROR"
                  /\ logs[e].err = SaveResAt(x)
                  /\ NamesSymbol(logs[e], symbols[x])

\* ------------------------------------------------------------------------
\* C14
\* ------------------------------------------------------------------------

\* The formats of the events of list position x, in emission order.
RECURSIVE FormatsAt(_, _)
FormatsAt(x, n) ==
    IF n = 0 THEN <<>>
    ELSE IF logs[n].pos = x THEN Append(FormatsAt(x, n - 1), logs[n].fmt)
    ELSE FormatsAt(x, n - 1)

\* C14 as stated: when the run has ended, each symbol has exactly one event,
\* whatever its outcome.
C14_Original ==
    RunEnded => \A x \in Positions : Cardinality(EventsAt(x)) = 1

\* C14 amended: when the run has ended, each symbol has exactly one event
\* when its fetch failed (the fetch error) or when its fetch and its persist
\* both succeeded (the fetch report), and exactly two when its fetch
\* succeeded and its persist failed (the fetch report, then the store error).
C14_EventsPerSymbol ==
    RunEnded =>
        \A x \in Positions :
            /\ FetchFailedAt(x) => FormatsAt(x, Len(logs)) = <<"Fetch error: {err}">>
            /\ Succeeded(x) => FormatsAt(x, Len(logs)) = <<"Fetched {sym}: ${}">>
            /\ SaveFailedAt(x) =>
                  FormatsAt(x, Len(logs)) = <<"Fetched {sym}: ${}", "DB error: {e}">>
            /\ FetchFailedAt(x) \/ Succeeded(x) \/ SaveFailedAt(x)

\* The run ended with one symbol of each outcome.
C14_Witness ==
    /\ RunEnded
    /\ FetchFailedAt(1)
    /\ SaveFailedAt(2)
    /\ Succeeded(3)

\* ------------------------------------------------------------------------
\* C15
\* ------------------------------------------------------------------------

\* The call of fetch_alpha_vantage that built the record of save_price call k.
FetchOf(k) == fetchCalls[CHOOSE h \in FetchesAt(saveCalls[k].pos) : TRUE]

\* C15: the record built from a response whose price text parses has the
\* parsed value of the text as price (150.25 for "150.25"), the symbol the
\* provider echoed as symbol, the fixed tag as source and the whole seconds
\* of the clock at the return of the fetch as timestamp; source and
\* timestamp are the same whatever the response holds.
C15_RecordFromQuote ==
    \A k \in 1..Len(saveCalls) :
        LET rec == saveCalls[k].rec
            quote == FetchOf(k).resp
        IN  /\ FetchOf(k).res = "Ok"
            /\ rec.symbol = quote.symbol
            /\ ParseF64(quote.price).ok
            /\ rec.price = ParseF64(quote.price).val
            /\ quote.price = <<"1", "5", "0", ".", "2", "5">>
                  => rec.price = [kind |-> "finite", neg |-> FALSE, mant |-> 15025, scale |-> 2]
            /\ rec.source = "alpha_vantage"
            /\ rec.timestamp = FetchOf(k).ret \div 1000
            /\ DOMAIN rec = Columns

\* A record was built from a quote for "150.25" that echoed another symbol
\* than the one asked for, one second or more after the start.
C15_Witness ==
    \E k \in 1..Len(saveCalls) :
        /\ FetchOf(k).resp = Quote("IBM", <<"1", "5", "0", ".", "2", "5">>)
        /\ saveCalls[k].rec.symbol # symbols[saveCalls[k].pos]
        /\ saveCalls[k].rec.timestamp >= 1

\* ------------------------------------------------------------------------
\* C16
\* ------------------------------------------------------------------------

\* Row r is the most recently inserted row with symbol sym.
LatestFor(sym, r) ==
    /\ r \in 1..Len(rows)
    /\ rows[r].symbol = sym
    /\ \A q \in 1..Len(rows) : q > r => rows[q].symbol # sym

\* C16: after save_price has returned Ok for record R, and until a later
\* record with the same symbol is persisted, the most recently inserted row
\* with R's symbol has R's symbol, price, source and timestamp.
C16_RoundTrip ==
    \A k \in 1..Len(saveCalls) :
        LET rec == saveCalls[k].rec
        IN  (/\ saveCalls[k].res = "Ok"
             /\ \A h \in 1..Len(saveCalls) :
                   (h > k /\ saveCalls[h].res = "Ok") => saveCalls[h].rec.symbol # rec.symbol)
            => \E r \in 1..Len(rows) :
                  /\ LatestFor(rec.symbol, r)
                  /\ rows[r].symbol = rec.symbol
                  /\ rows[r].price = rec.price
                  /\ rows[r].source = rec.source
                  /\ rows[r].timestamp = rec.timestamp

\* Two different records with one symbol were persisted one after the other,
\* on a table that already held a row.
C16_Witness ==
    /\ rows0 # <<>>
    /\ \E h, k \in 1..Len(saveCalls) :
          /\ h < k
          /\ saveCalls[h].res = "Ok"
          /\ saveCalls[k].res = "Ok"
          /\ saveCalls[h].rec.symbol = saveCalls[k].rec.symbol
          /\ saveCalls[h].rec # saveCalls[k].rec

\* ------------------------------------------------------------------------
\* C17
\* ------------------------------------------------------------------------

\* The numbers of fetch calls, requests and save calls made for position x.
AttemptsAt(x) ==
    <<Cardinality(FetchesAt(x)), Cardinality(RequestsAt(x)), Cardinality(SavesAt(x))>>

\* C17: nothing is retried within a run: each list position has at most one
\* fetch call, one request and one persist call, and once the fetch or the
\* persist of a position has failed no step adds a fetch, a request or a
\* persist for that position.
C17_NoRetry ==
    /\ [](\A x \in Positions :
             /\ Cardinality(FetchesAt(x)) <= 1
             /\ Cardinality(RequestsAt(x)) <= 1
             /\ Cardinality(SavesAt(x)) <= 1)
    /\ [][\A x \in Positions :
             (FetchFailedAt(x) \/ SaveFailedAt(x)) => AttemptsAt(x)' = AttemptsAt(x)]_vars

\* The run ended after failed fetches at the ends of the list and a failed
\* persist in between.
C17_Witness ==
    /\ RunEnded
    /\ FetchFailedAt(1)
    /\ SaveFailedAt(2)
    /\ FetchFailedAt(3)

\* ------------------------------------------------------------------------
\* C18
\* ------------------------------------------------------------------------

IsFinite(v) == v.kind = "finite"

\* C18: every record handed to save_price, and so every row the run adds,
\* has a finite price: a price text that does not denote a finite number
\* makes the fetch fail, and no record is built from it.
C18_FinitePrice ==
    /\ \A k \in 1..Len(saveCalls) : IsFinite(saveCalls[k].rec.price)
    /\ \A r \in AddedRows : IsFinite(rows[r].price)
    /\ \A k \in 1..Len(fetchCalls) :
         (fetchCalls[k].resp # NoQuote /\ ~IsFinite(ParseF64(fetchCalls[k].resp.price).val))
             => fetchCalls[k].res # "Ok"

\* ------------------------------------------------------------------------
\* C19
\* ------------------------------------------------------------------------

\* C19: with ALPHA_VANTAGE_KEY absent and the pool established, the failure
\* is per symbol and not fatal: every fetch fails for want of the key,
\* nothing is sent or persisted, main never returns an error, and when it
\* has ended it has visited all N symbols and returned Ok.
C19_MissingKeyIsRecoverable ==
    (~env.ALPHA_VANTAGE_KEY /\ pool) =>
        /\ result # "Err"
        /\ \A k \in 1..Len(fetchCalls) : fetchCalls[k].res = "env::VarError"
        /\ saveCalls = <<>>
        /\ requests = <<>>
        /\ rows = rows0
        /\ pc = "done" =>
             /\ result = "Ok"
             /\ Len(fetchCalls) = N
             /\ \A x \in Positions : FetchFailedAt(x)
             /\ Len(sleeps) = N

\* Without the key, on a table that held a row, the run ended with Ok.
C19_Witness ==
    /\ ~env.ALPHA_VANTAGE_KEY
    /\ RunEnded
    /\ result = "Ok"
    /\ rows0 # <<>>
    /\ \A x \in Positions : FetchFailedAt(x)

\* ------------------------------------------------------------------------
\* C20
\* ------------------------------------------------------------------------

\* The list position whose save_price call added row r.
RowPos(r) == CHOOSE x \in Positions : r \in RowsAt(x)

\* C20: the run sleeps after every symbol, the last one included: main does
\* not return before the delay of the last symbol is over, and when the run
\* has ended there are N delays, one per position, each of them completed
\* after at least PacingDelayMs; the rows the run adds are in the table in
\* the order of their symbols in the list.
C20_DelayAfterEverySymbol ==
    /\ RunEnded =>
         /\ Len(sleeps) = N
         /\ \A s \in 1..Len(sleeps) :
              /\ sleeps[s].pos = s
              /\ sleeps[s].to # -1
              /\ sleeps[s].to - sleeps[s].from >= PacingDelayMs
              /\ sleeps[s].to <= now
    /\ (pool /\ result = "Ok") => (pc = "done" /\ Len(sleeps) = N /\ sleeps[N].to # -1)
    /\ \A r, q \in AddedRows :
         /\ \E x \in Positions : r \in RowsAt(x)
         /\ r < q => RowPos(r) < RowPos(q)

\* The run ended, after the delay of the last symbol, and added two rows
\* or more.
C20_Witness ==
    /\ RunEnded
    /\ Len(rows) >= Len(rows0) + 2
    /\ sleeps[N].pos = N
    /\ sleeps[N].to - sleeps[N].from >= PacingDelayMs

====
